---- MODULE Spec2Model ----
(***************************************************************************)
(* A model of the training harness of Pytorch-template: the checkpoint     *)
(* lifecycle of TrainerMisc (src/src/utils/misc.py), the resumable data    *)
(* loader InfiniteDataLoaderX, its _RepeatSampler and collate_fn           *)
(* (src/src/datasets/modules/data_module_base.py), the helpers of DistMisc *)
(* and PortalMisc, and the epoch loop of train_run (src/train.py).         *)
(*                                                                         *)
(* Each subsystem has its own specification over the shared variables; a   *)
(* specification keeps the variables of the other subsystems at their idle *)
(* values.                                                                 *)
(***************************************************************************)
EXTENDS Integers, Sequences, FiniteSets, Bags, TLC

\* ------------------------------------------------------------------ bounds
\* Largest number of samples the train sampler yields per cycle.
MaxSamples == 3
\* Largest batch size.
MaxBatchSize == 2
\* Largest number of batches the underlying iterator draws ahead.
MaxPrefetch == 1
\* Passes made over one loader.
MaxPasses == 3
\* Largest number of processes.
MaxWorld == 2
\* Longest object handed to all_gather.
MaxDataLen == 2
\* Largest number of keys of a dict handed to reduce_dict.
MaxKeys == 3
\* Calls of print made by one process.
MaxPrints == 3
\* cfg.trainer.epochs: the last epoch of the loop.
MaxEpoch == 2
\* Largest cfg.trainer.save_interval.
MaxInterval == 2
\* Number of distinct non-empty metric dicts an evaluation can produce.
MaxMetric == 2
\* len(trainer_status['train_loader']).
LenTrainLoader == 2

\* SIGINTs one process receives.
MaxSigints == 2

\* Largest torch.cuda.device_count().
MaxDevices == 2

\* Items a consumer asks of one _RepeatSampler generator.
MaxRequests == 4

\* --------------------------------------------------------------- variables
VARIABLES
    cfg,             \* the configuration namespace of the running process
    rank,            \* DistMisc.get_rank() of the running process
    work_dir,        \* cfg.info.work_dir: file name -> stored checkpoint dict
    trainer_status,  \* the dict handed to the TrainerMisc hooks
    pc,              \* the place of the process in train_run
    raised,          \* <<function, exception>> that ended the process, or NoError
    loader,          \* the arguments an InfiniteDataLoaderX was built with
    repeat,          \* the generator of _RepeatSampler.__iter__
    in_flight,       \* batches the underlying iterator has drawn ahead
    passes,          \* per pass over the loader, the batches it yielded
    pass_state,      \* "none" | "running" | "finished" | "abandoned"
    world_size,      \* DistMisc.get_world_size()
    ag_rank,         \* per rank, the locals of its call of DistMisc.all_gather
    ag_net,          \* what the ranks have handed to the two dist.all_gather
    rd_rank,         \* per rank, the locals of its call of DistMisc.reduce_dict
    rd_net,          \* what the ranks have handed to dist.all_reduce
    print_fn,        \* what builtins.print is bound to
    print_log,       \* the calls of print made so far, with their outcome
    sigint,          \* a process that installed PortalMisc.interrupt_handler
    dist_env,        \* a call of DistMisc.init_distributed_mode
    run,             \* a call of train_run on one rank
    shuffle,         \* the train sampler's shuffle epoch over the epochs of a run
    collate,         \* a call of DataModuleBase.collate_fn
    sampler_gen      \* the frames of one _RepeatSampler.__iter__ generator

ckptVars == <<cfg, rank, work_dir, trainer_status, pc, raised>>

loaderVars == <<loader, repeat, in_flight, passes, pass_state>>

gatherVars == <<ag_rank, ag_net>>

reduceVars == <<rd_rank, rd_net>>

printVars == <<print_fn, print_log>>

\* The subsystems added around the first five: each is one record.
portalVars == <<sigint, dist_env, run, shuffle, collate, sampler_gen>>

vars == <<ckptVars, loaderVars, world_size, gatherVars, reduceVars, printVars, portalVars>>

\* The value of a subsystem's record while that subsystem does not run.
Unused == [pc |-> "unused"]

SigintIdle == sigint = Unused

DistEnvIdle == dist_env = Unused

RunIdle == run = Unused

ShuffleIdle == shuffle = Unused

CollateIdle == collate = Unused

SamplerGenIdle == sampler_gen = Unused

PortalIdle ==
    SigintIdle /\ DistEnvIdle /\ RunIdle /\ ShuffleIdle /\ CollateIdle /\ SamplerGenIdle

NoError == <<"none", "none">>

\* ------------------------------------------------------- checkpoint files
\* A python dict is a function from the keys it holds; {} has no keys.  A
\* metrics dict is abstracted to the set of its values.
EmptyDict == {}

MetricDicts == {{v} : v \in 1..MaxMetric}

\* A file name checkpoint_<kind>_epoch_<tag>.pth is the pair <<kind, tag>>.
BestName(tag) == <<"best", tag>>

LastName(tag) == <<"last", tag>>

\* Files some earlier tool or the user left in the directory; both match the
\* glob of their kind.
StrayNames == {BestName("a"), BestName("b"), LastName("a"), LastName("b")}

StrayCkpt == [by |-> "other", model |-> 0, best_metrics |-> EmptyDict, epoch |-> 0]

\* glob(os.path.join(work_dir, 'checkpoint_<kind>_epoch_*.pth'))
Glob(dir, kind) == {f \in DOMAIN dir : f[1] = kind}

\* torch.save(obj, path): create or overwrite the file.
TorchSave(dir, name, obj) == [f \in (DOMAIN dir) \cup {name} |-> IF f = name THEN obj ELSE dir[f]]

\* os.rename(src, dst): dst replaces src (a rename onto itself changes nothing).
OsRename(dir, src, dst) == [f \in ((DOMAIN dir) \ {src}) \cup {dst} |-> IF f = dst THEN dir[src] ELSE dir[f]]

\* ------------------------------------------------------------ the process
\* trainer_status as the trainer builds it before before_all_epochs.
NewTrainerStatus ==
    [model |-> 0, optimizer |-> 0, lr_scheduler |-> 0, scaler |-> 0,
     start_epoch |-> 1, epoch |-> 0, metrics |-> EmptyDict,
     best_metrics |-> EmptyDict, train_iters |-> 0, sampler_epoch |-> 0]

Configs ==
    [resume : BOOLEAN, amp : BOOLEAN, device : BOOLEAN,
     save_interval : 1..MaxInterval, distributed : BOOLEAN]

\* The variables of the other subsystems while this one runs.
CkptFrame == UNCHANGED <<loaderVars, world_size, gatherVars, reduceVars, printVars, portalVars>>

LoaderIdle ==
    /\ loader = [n_samples |-> 0, batch_size |-> 1, drop_last |-> FALSE, prefetch |-> 0]
    /\ repeat = [cycle |-> 0, idx |-> 0, open |-> FALSE]
    /\ in_flight = <<>>
    /\ passes = <<>>
    /\ pass_state = "none"

GatherIdle == ag_rank = <<>> /\ ag_net = <<>>

ReduceIdle == rd_rank = <<>> /\ rd_net = <<>>

PrintIdle == print_fn = "builtin" /\ print_log = <<>>

CkptInit ==
    /\ PortalIdle
    /\ LoaderIdle
    /\ world_size = 1
    /\ GatherIdle
    /\ ReduceIdle
    /\ PrintIdle
    /\ cfg \in Configs
    /\ rank \in {0, 1}
    /\ (rank # 0 => cfg.distributed)
    /\ \E S \in SUBSET StrayNames : work_dir = [f \in S |-> StrayCkpt]
    /\ trainer_status = NewTrainerStatus
    /\ pc = "start"
    /\ raised = NoError

is_main_process == rank = 0

\* ------------------------------------------------ TrainerMisc.resume_training
\* A resume that starts again at the saved epoch.
ResumeStartEpochSame(checkpoint) == checkpoint.epoch

\* trainer_status['start_epoch'] = checkpoint['epoch'] + 1
ResumeStartEpoch(checkpoint) == checkpoint.epoch + 1

\* trainer_status['train_iters'] = checkpoint['epoch']*len(train_loader)
ResumeTrainIters(checkpoint) == checkpoint.epoch * LenTrainLoader

\* checkpoint.get(key, {})
DictGet(checkpoint, key) == IF key \in DOMAIN checkpoint THEN checkpoint[key] ELSE EmptyDict

\* The keys resume_training reads with checkpoint[...], in the order it reads
\* them; each is loaded into the entry of trainer_status of the same name.
ResumeLoadKeys(c) == <<"model", "optimizer", "lr_scheduler">> \o (IF c.amp THEN <<"scaler">> ELSE <<>>)

\* trainer_status after load_state_dict of the first n keys of ks.
RECURSIVE LoadStateDicts(_, _, _, _)
LoadStateDicts(ts, checkpoint, ks, n) ==
    IF n = 0 THEN ts
    ELSE [LoadStateDicts(ts, checkpoint, ks, n - 1) EXCEPT ![ks[n]] = checkpoint[ks[n]]]

\* How many of the keys ks are read before one is missing (Len(ks) if none).
RECURSIVE KeysPresent(_, _, _)
KeysPresent(checkpoint, ks, n) ==
    IF n = Len(ks) \/ ks[n + 1] \notin DOMAIN checkpoint THEN n
    ELSE KeysPresent(checkpoint, ks, n + 1)

\* An assertion that only asks for some last checkpoint.
ResumeAssertionAtLeastOne(checkpoint_path) == Cardinality(checkpoint_path) >= 1

\* The assertion of resume_training: exactly one last checkpoint is found.
ResumeAssertion(checkpoint_path) == Cardinality(checkpoint_path) = 1

\* resume_training(cfg, trainer_status): <<trainer_status, raised>> at its end.
ResumeTrainingResult(c, dir, ts) ==
    IF ~c.resume THEN <<ts, NoError>>
    ELSE LET checkpoint_path == Glob(dir, "last") IN
         IF ~ResumeAssertion(checkpoint_path)
         THEN <<ts, <<"resume_training", "AssertionError">> >>
         ELSE LET checkpoint == dir[CHOOSE f \in checkpoint_path : TRUE]
                  ks == ResumeLoadKeys(c)
                  n == KeysPresent(checkpoint, ks, 0)
                  loaded == LoadStateDicts(ts, checkpoint, ks, n)
              IN  IF n < Len(ks) \/ "epoch" \notin DOMAIN checkpoint
                  THEN <<loaded, <<"resume_training", "KeyError">> >>
                  ELSE <<[loaded EXCEPT
                            !.start_epoch = ResumeStartEpoch(checkpoint),
                            !.best_metrics = DictGet(checkpoint, "best_metrics"),
                            !.metrics = DictGet(checkpoint, "last_metrics"),
                            !.train_iters = ResumeTrainIters(checkpoint)],
                         NoError>>

\* before_all_epochs of the trainer: resume if asked to, then the epoch loop.
ResumeTraining ==
    /\ pc = "start"
    /\ LET r == ResumeTrainingResult(cfg, work_dir, trainer_status) IN
        /\ trainer_status' = r[1]
        /\ raised' = r[2]
        /\ pc' = IF r[2] = NoError THEN "epoch_loop" ELSE "failed"
    /\ UNCHANGED <<cfg, rank, work_dir>>
    /\ CkptFrame

\* ----------------------------------------------- TrainerMisc.before_one_epoch
\* The epoch the loop of train_run hands to before_one_epoch next: the loop
\* runs from trainer_status['start_epoch'] to cfg.trainer.epochs.
NextEpoch(ts) == IF ts.epoch < ts.start_epoch THEN ts.start_epoch ELSE ts.epoch + 1

\* The shuffle epoch before_one_epoch hands to sampler_set_epoch.
SamplerEpoch(e) == e - 1

\* before_one_epoch(epoch=e): record the epoch; in distributed mode set the
\* shuffle epoch of the train sampler to e - 1.
BeforeOneEpoch ==
    /\ pc = "epoch_loop"
    /\ NextEpoch(trainer_status) <= MaxEpoch
    /\ LET e == NextEpoch(trainer_status) IN
        trainer_status' =
         [trainer_status EXCEPT
            !.epoch = e,
            !.sampler_epoch = IF cfg.distributed THEN SamplerEpoch(e) ELSE @]
    /\ pc' = "train"
    /\ UNCHANGED <<cfg, rank, work_dir, raised>>
    /\ CkptFrame

\* train_one_epoch and evaluate of the engine: the weights, the optimizer, the
\* scheduler and the scaler are those of the finished epoch, the iteration
\* count grows by one pass over the train loader, and the evaluation leaves
\* its metrics.
TrainAndEvaluate(m) ==
    /\ pc = "train"
    /\ LET e == trainer_status.epoch IN
        trainer_status' =
         [trainer_status EXCEPT
            !.model = e, !.optimizer = e, !.lr_scheduler = e, !.scaler = e,
            !.train_iters = @ + LenTrainLoader,
            !.metrics = m]
    /\ pc' = "after_validation"
    /\ UNCHANGED <<cfg, rank, work_dir, raised>>
    /\ CkptFrame

\* The loop of train_run is exhausted: after_all_epochs, and the process ends.
AfterAllEpochs ==
    /\ pc = "epoch_loop"
    /\ NextEpoch(trainer_status) > MaxEpoch
    /\ pc' = "done"
    /\ UNCHANGED <<cfg, rank, work_dir, trainer_status, raised>>
    /\ CkptFrame

\* ------------------------------------------------ TrainerMisc.save_checkpoint
\* f'checkpoint_<kind>_epoch_{epoch_finished}.pth'
CheckpointName(kind, epoch_finished) == <<kind, ToString(epoch_finished)>>

\* save_files as first built: the entries every checkpoint holds.  "by" is not
\* an entry of the dict: it marks the file as one save_checkpoint wrote.
SaveFiles(ts) ==
    [by |-> "save_checkpoint", model |-> ts.model,
     best_metrics |-> ts.best_metrics, epoch |-> ts.epoch]

\* The entries save_files.update adds to it for the last checkpoint.
LastEntries(c, ts) ==
    [optimizer |-> ts.optimizer, lr_scheduler |-> ts.lr_scheduler,
     last_metric |-> ts.metrics]
    @@ (IF c.amp /\ c.device THEN [scaler |-> ts.scaler] ELSE <<>>)

SaveLastDueOnMultiple(c, ts) == ts.epoch % c.save_interval = 0

\* (trainer_status['epoch'] + 1) % cfg.trainer.save_interval == 0
SaveLastDue(c, ts) == (ts.epoch + 1) % c.save_interval = 0

\* A write that never renames the file of the previous epoch.
WriteCheckpointKeepOld(dir, kind, save_files, epoch_finished) ==
    TorchSave(dir, CheckpointName(kind, epoch_finished), save_files)

\* The write of one checkpoint kind: the file found by the glob is overwritten
\* and renamed to the finished epoch, or a new file is written.
WriteCheckpoint(dir, kind, save_files, epoch_finished) ==
    LET found == Glob(dir, kind) IN
    IF Cardinality(found) = 1
    THEN LET old == CHOOSE f \in found : TRUE IN
         OsRename(TorchSave(dir, old, save_files), old, CheckpointName(kind, epoch_finished))
    ELSE TorchSave(dir, CheckpointName(kind, epoch_finished), save_files)

\* assert len(best) <= 1, assert len(last) <= 1
SaveAssertion(dir, kind) == Cardinality(Glob(dir, kind)) <= 1

\* save_checkpoint on the main process, choose_best having returned
\* (best_metrics, save_flag): <<work_dir, raised>> at its end.
SaveCheckpointResult(c, dir, ts, save_flag) ==
    LET save_files == SaveFiles(ts)
        best_ok == ~save_flag \/ SaveAssertion(dir, "best")
        dir1 == IF save_flag /\ best_ok
                THEN WriteCheckpoint(dir, "best", save_files, ts.epoch)
                ELSE dir
        last_files == LastEntries(c, ts) @@ save_files
    IN  IF ~best_ok THEN <<dir, <<"save_checkpoint", "AssertionError">> >>
        ELSE IF ~SaveLastDue(c, ts) THEN <<dir1, NoError>>
        ELSE IF ~SaveAssertion(dir1, "last")
             THEN <<dir1, <<"save_checkpoint", "AssertionError">> >>
        ELSE <<WriteCheckpoint(dir1, "last", last_files, ts.epoch), NoError>>

\* after_validation -> save_checkpoint.  choose_best of the metric criterion
\* returns any best_metrics and any save_flag.
SaveCheckpoint(best_metrics, save_flag) ==
    /\ pc = "after_validation"
    /\ IF is_main_process
       THEN LET ts == [trainer_status EXCEPT !.best_metrics = best_metrics]
                r == SaveCheckpointResult(cfg, work_dir, ts, save_flag)
            IN  /\ trainer_status' = ts
                /\ work_dir' = r[1]
                /\ raised' = r[2]
                /\ pc' = IF r[2] = NoError THEN "epoch_loop" ELSE "failed"
       ELSE /\ pc' = "epoch_loop"
            /\ UNCHANGED <<trainer_status, work_dir, raised>>
    /\ UNCHANGED <<cfg, rank>>
    /\ CkptFrame

\* The process ends (finished, killed or failed) and the program is started
\* again on the same work_dir, with or without cfg.trainer.resume.
Restart(resume, r) ==
    /\ pc # "start"
    /\ (r # 0 => cfg.distributed)
    /\ cfg' = [cfg EXCEPT !.resume = resume]
    /\ rank' = r
    /\ trainer_status' = NewTrainerStatus
    /\ pc' = "start"
    /\ raised' = NoError
    /\ UNCHANGED work_dir
    /\ CkptFrame

CkptNext ==
    \/ ResumeTraining
    \/ BeforeOneEpoch
    \/ AfterAllEpochs
    \/ \E m \in MetricDicts : TrainAndEvaluate(m)
    \/ \E b \in MetricDicts \cup {EmptyDict}, flag \in BOOLEAN : SaveCheckpoint(b, flag)
    \/ \E resume \in BOOLEAN, r \in {0, 1} : Restart(resume, r)

Spec == CkptInit /\ [][CkptNext]_vars

\* --------------------------------------------- checkpoint properties
AtMostOneEach(dir) ==
    /\ Cardinality(Glob(dir, "best")) <= 1
    /\ Cardinality(Glob(dir, "last")) <= 1

SaveAssertionFailed == raised = <<"save_checkpoint", "AssertionError">>

ResumeAssertionFailed == raised = <<"resume_training", "AssertionError">>

\* A step of resume_training with cfg.trainer.resume set.
ResumeStep == pc = "start" /\ cfg.resume /\ pc' # "start"

\* A step of resume_training that loaded a checkpoint to its end.
ResumeLoaded == ResumeStep /\ pc' = "epoch_loop"

WrittenBySave(dir, f) == dir[f].by = "save_checkpoint"

\* C1: from a work_dir that holds at most one best and at most one last
\* checkpoint, every step leaves at most one file of each kind and no
\* assertion of save_checkpoint fails; so by induction it holds after any
\* sequence of save_checkpoint calls from such a work_dir.
C1_AtMostOneOfEachKind ==
    [][AtMostOneEach(work_dir) =>
         AtMostOneEach(work_dir') /\ ~SaveAssertionFailed']_vars

\* A run from epoch 1 saved epoch 2: work_dir holds exactly the best and the
\* last checkpoint of epoch 2.
C1_Witness ==
    /\ DOMAIN work_dir = {CheckpointName("best", 2), CheckpointName("last", 2)}
    /\ pc = "epoch_loop"
    /\ trainer_status.start_epoch = 1

\* C2: when resume_training loads the last checkpoint that save_checkpoint
\* wrote at the end of epoch E (the file checkpoint_last_epoch_E.pth),
\* start_epoch is E + 1, train_iters is E * len(train_loader), and the epoch
\* loop goes on with epoch E + 1.
C2_ResumeContinuesAfterSavedEpoch ==
    [][ResumeLoaded =>
         \A f \in Glob(work_dir, "last") : \A E \in 0..MaxEpoch :
            (WrittenBySave(work_dir, f) /\ f = CheckpointName("last", E)) =>
               /\ trainer_status'.start_epoch = E + 1
               /\ trainer_status'.train_iters = E * LenTrainLoader
               /\ NextEpoch(trainer_status') = E + 1]_vars

\* The process resumed from the checkpoint of epoch 1 and stands at the head
\* of the loop.
C2_Witness ==
    /\ pc = "epoch_loop" /\ cfg.resume
    /\ trainer_status.epoch = 0
    /\ trainer_status.start_epoch = 2
    /\ trainer_status.train_iters = LenTrainLoader
    /\ \E f \in DOMAIN work_dir : f = CheckpointName("last", 1) /\ WrittenBySave(work_dir, f)

\* C3: with cfg.trainer.resume set, resume_training fails its assertion
\* exactly when the number of last checkpoints in work_dir is not one, and a
\* failed assertion leaves every entry of trainer_status as it was.
C3_ResumeAssertsExactlyOne ==
    [][ResumeStep =>
         /\ ResumeAssertionFailed' <=> Cardinality(Glob(work_dir, "last")) # 1
         /\ ResumeAssertionFailed' => trainer_status' = trainer_status]_vars

\* resume_training failed on two last checkpoints.
C3_Witness ==
    /\ pc = "failed" /\ ResumeAssertionFailed
    /\ Cardinality(Glob(work_dir, "last")) = 2
    /\ trainer_status = NewTrainerStatus

\* C4: when resume_training loads a last checkpoint that save_checkpoint
\* wrote, trainer_status['metrics'] is the metrics saved in it and
\* trainer_status['best_metrics'] is the best_metrics saved in it.
C4_MetricsRoundTrip ==
    [][ResumeLoaded =>
         \A f \in Glob(work_dir, "last") :
            WrittenBySave(work_dir, f) =>
               /\ trainer_status'.metrics = work_dir[f].last_metric
               /\ trainer_status'.best_metrics = work_dir[f].best_metrics]_vars

\* C5: with cfg.env.amp true, every last checkpoint save_checkpoint wrote
\* holds the 'scaler' entry, and a resume from such a checkpoint does not
\* fail on a missing key.
C5_ScalerSavedWhenAmp ==
    cfg.amp =>
       \A f \in Glob(work_dir, "last") :
          WrittenBySave(work_dir, f) =>
             /\ "scaler" \in DOMAIN work_dir[f]
             /\ raised # <<"resume_training", "KeyError">>

\* A step of save_checkpoint, on any rank.
SaveStep == pc = "after_validation" /\ pc' \in {"epoch_loop", "failed"}

\* The step is what save_checkpoint does on the main process when choose_best
\* returns this save flag.
SavedWithFlag(save_flag) ==
    LET r == SaveCheckpointResult(cfg, work_dir, trainer_status', save_flag) IN
    work_dir' = r[1] /\ raised' = r[2]

\* The files of one kind with their contents.
FilesOfKind(dir, kind) == [f \in Glob(dir, kind) |-> dir[f]]

\* The last checkpoint is rewritten exactly when (e + 1) % save_interval is 0
\* and is then the single file checkpoint_last_epoch_e.pth.
LastRewrittenWhenDue ==
    LET e == trainer_status'.epoch IN
    IF (e + 1) % cfg.save_interval = 0
    THEN /\ Glob(work_dir', "last") = {CheckpointName("last", e)}
         /\ work_dir'[CheckpointName("last", e)] =
               LastEntries(cfg, trainer_status') @@ SaveFiles(trainer_status')
    ELSE FilesOfKind(work_dir', "last") = FilesOfKind(work_dir, "last")

\* The best checkpoint is rewritten exactly when the save flag is true and is
\* then the single file checkpoint_best_epoch_e.pth.
BestRewrittenWhenFlagged(save_flag) ==
    LET e == trainer_status'.epoch IN
    IF save_flag
    THEN /\ Glob(work_dir', "best") = {CheckpointName("best", e)}
         /\ work_dir'[CheckpointName("best", e)] = SaveFiles(trainer_status')
    ELSE FilesOfKind(work_dir', "best") = FilesOfKind(work_dir, "best")

\* C16 as stated: every call of save_checkpoint rewrites the last checkpoint
\* exactly on the epochs e with (e + 1) % save_interval = 0, leaving it as the
\* single file checkpoint_last_epoch_e.pth, and leaves it unchanged on every
\* other epoch; likewise for the best checkpoint and the save flag of
\* choose_best.
C16_CheckpointsRewrittenWhenDue ==
    [][SaveStep =>
         /\ LastRewrittenWhenDue
         /\ is_main_process =>
               \A flag \in BOOLEAN : SavedWithFlag(flag) => BestRewrittenWhenFlagged(flag)]_vars

\* C16, amended: the same for the calls made on the main process with at most
\* one checkpoint of each kind in work_dir; on every other rank
\* save_checkpoint leaves work_dir unchanged.
C16_MainProcessRewritesWhenDue ==
    [][SaveStep =>
         IF is_main_process
         THEN AtMostOneEach(work_dir) =>
                 /\ LastRewrittenWhenDue
                 /\ \A flag \in BOOLEAN : SavedWithFlag(flag) => BestRewrittenWhenFlagged(flag)
         ELSE work_dir' = work_dir]_vars

\* With save_interval 2 the main process wrote the last checkpoint at the end
\* of epoch 1 and left it unchanged at the end of epoch 2, where it wrote the
\* best checkpoint.
C16_Witness ==
    /\ rank = 0
    /\ cfg.save_interval = 2
    /\ pc = "epoch_loop"
    /\ trainer_status.epoch = 2
    /\ trainer_status.start_epoch = 1
    /\ DOMAIN work_dir = {CheckpointName("last", 1), CheckpointName("best", 2)}
    /\ WrittenBySave(work_dir, CheckpointName("last", 1))

\* ===================================================== InfiniteDataLoaderX
CkptIdle ==
    /\ cfg = [resume |-> FALSE, amp |-> FALSE, device |-> FALSE,
              save_interval |-> 1, distributed |-> FALSE]
    /\ rank = 0
    /\ work_dir = <<>>
    /\ trainer_status = NewTrainerStatus
    /\ pc = "idle"
    /\ raised = NoError

\* The variables of the other subsystems while the loader runs.
LoaderFrame == UNCHANGED <<ckptVars, world_size, gatherVars, reduceVars, printVars, portalVars>>

\* len(batch_sampler) of the BatchSampler the DataLoader builds from sampler,
\* batch_size and drop_last.
NumBatches(l) ==
    IF l.drop_last THEN l.n_samples \div l.batch_size
    ELSE (l.n_samples + l.batch_size - 1) \div l.batch_size

\* A length taken from the sampler of samples instead of the batch sampler.
LoaderLenOfSampler(l) == l.n_samples

\* InfiniteDataLoaderX.__len__ with a batch sampler:
\* len(self.batch_sampler.sampler), the wrapped BatchSampler.
LoaderLen(l) == NumBatches(l)

\* _RepeatSampler.__iter__ before its first item is asked for; cycle counts the
\* iterators of the wrapped sampler opened so far.
RepeatStart(cycles) == [cycle |-> cycles, idx |-> 0, open |-> FALSE]

\* One item more from the generator, for a wrapped sampler of n > 0 items:
\* the next item of the open iterator, or the first of a fresh one when the
\* open one is exhausted (while True: yield from iter(self.sampler)).
RepeatNext(rs, n) ==
    IF rs.open /\ rs.idx < n THEN [rs EXCEPT !.idx = @ + 1]
    ELSE [cycle |-> rs.cycle + 1, idx |-> 1, open |-> TRUE]

\* The item the generator yielded last: the idx-th batch of its cycle.
RepeatItem(rs) == <<rs.cycle, rs.idx>>

\* next(self.iterator) on the iterator <<generator, batches drawn ahead>>: the
\* iterator draws one more batch and hands out the oldest one it holds.
\* <<generator, drawn ahead, batch handed out>>
IteratorNext(it, n) ==
    LET rs == RepeatNext(it[1], n)
        q == Append(it[2], RepeatItem(rs))
    IN  <<rs, Tail(q), Head(q)>>

\* super().__iter__(): a new iterator over the generator rs that has drawn k
\* batches ahead (the prefetch of the worker processes; none without workers).
RECURSIVE NewIterator(_, _, _)
NewIterator(rs, n, k) ==
    IF k = 0 THEN <<rs, <<>> >>
    ELSE LET it == NewIterator(rs, n, k - 1)
             nx == RepeatNext(it[1], n)
         IN  <<nx, Append(it[2], RepeatItem(nx))>>

\* A pass that builds a new underlying iterator instead of using the kept one.
PassIteratorFresh(l, it) == NewIterator(RepeatStart(it[1].cycle), LoaderLen(l), l.prefetch)

\* The iterator a pass draws from: self.iterator, built once in __init__.
PassIterator(l, it) == it

Loaders ==
    [n_samples : 0..MaxSamples, batch_size : 1..MaxBatchSize,
     drop_last : BOOLEAN, prefetch : 0..MaxPrefetch]

\* InfiniteDataLoaderX.__init__.  With no batch to draw, an iterator that
\* draws ahead never returns from its first draw, so no such loader exists.
LoaderInit ==
    /\ PortalIdle
    /\ CkptIdle
    /\ world_size = 1
    /\ GatherIdle
    /\ ReduceIdle
    /\ PrintIdle
    /\ loader \in Loaders
    /\ (NumBatches(loader) = 0 => loader.prefetch = 0)
    /\ LET it == NewIterator(RepeatStart(0), NumBatches(loader), loader.prefetch) IN
        /\ repeat = it[1]
        /\ in_flight = it[2]
    /\ passes = <<>>
    /\ pass_state = "none"

\* The batches the running (or last) pass has yielded.
CurrentPass == passes[Len(passes)]

\* iter(loader): a new generator of InfiniteDataLoaderX.__iter__.
StartPass ==
    /\ pass_state # "running"
    /\ Len(passes) < MaxPasses
    /\ LET it == PassIterator(loader, <<repeat, in_flight>>) IN
        /\ repeat' = it[1]
        /\ in_flight' = it[2]
    /\ passes' = Append(passes, <<>>)
    /\ pass_state' = "running"
    /\ UNCHANGED loader
    /\ LoaderFrame

\* One round of for _ in range(len(self)): yield next(self.iterator)
NextBatch ==
    /\ pass_state = "running"
    /\ Len(CurrentPass) < LoaderLen(loader)
    /\ LET r == IteratorNext(<<repeat, in_flight>>, NumBatches(loader)) IN
        /\ repeat' = r[1]
        /\ in_flight' = r[2]
        /\ passes' = [passes EXCEPT ![Len(passes)] = Append(@, r[3])]
    /\ UNCHANGED <<loader, pass_state>>
    /\ LoaderFrame

\* The range is exhausted: the generator returns (StopIteration).
EndPass ==
    /\ pass_state = "running"
    /\ Len(CurrentPass) >= LoaderLen(loader)
    /\ pass_state' = "finished"
    /\ UNCHANGED <<loader, repeat, in_flight, passes>>
    /\ LoaderFrame

\* The consumer leaves the pass (break, exception) and drops the generator.
AbandonPass ==
    /\ pass_state = "running"
    /\ pass_state' = "abandoned"
    /\ UNCHANGED <<loader, repeat, in_flight, passes>>
    /\ LoaderFrame

LoaderNext == StartPass \/ NextBatch \/ EndPass \/ AbandonPass

LoaderSpec == LoaderInit /\ [][LoaderNext]_vars

\* -------------------------------------------------- loader properties
\* The k-th batch of the endless stream of a sampler of n batches per cycle.
StreamItem(k, n) == <<((k - 1) \div n) + 1, ((k - 1) % n) + 1>>

RECURSIVE Flatten(_)
Flatten(ss) == IF ss = <<>> THEN <<>> ELSE Head(ss) \o Flatten(Tail(ss))

\* C6: a pass over the loader yields at most len(loader) batches, the number
\* of batches of the wrapped batch sampler; while it has yielded fewer it can
\* yield the next one, once it has yielded that many it can only end, and a
\* finished pass has yielded exactly that many.
C6_PassYieldsLenBatches ==
    /\ Len(passes) > 0 => Len(CurrentPass) <= NumBatches(loader)
    /\ pass_state = "finished" => Len(CurrentPass) = NumBatches(loader)
    /\ pass_state = "running" =>
          IF Len(CurrentPass) < NumBatches(loader)
          THEN ENABLED NextBatch /\ ~ENABLED EndPass
          ELSE ENABLED EndPass /\ ~ENABLED NextBatch

\* A second pass of two batches has finished on a loader that draws ahead.
C6_Witness ==
    /\ pass_state = "finished"
    /\ Len(passes) = 2
    /\ Len(CurrentPass) = 2
    /\ loader.n_samples = 3
    /\ loader.prefetch = 1

FullyConsumed(p) == Len(passes[p]) = NumBatches(loader)

\* C7: the passes draw from one iterator: joined in order they are a prefix
\* of the endless stream of sampler cycles.  A pass that follows only fully
\* consumed passes yields the batches of its own cycle from the first on, and
\* when it is fully consumed too it is that cycle, each batch once, in order.
C7_PassesFollowSamplerCycles ==
    LET n == NumBatches(loader)
        flat == Flatten(passes)
    IN  /\ \A k \in 1..Len(flat) : flat[k] = StreamItem(k, n)
        /\ \A p \in 1..Len(passes) :
              (\A q \in 1..(p - 1) : FullyConsumed(q)) =>
                 /\ \A i \in 1..Len(passes[p]) : passes[p][i] = <<p, i>>
                 /\ FullyConsumed(p) => passes[p] = [i \in 1..n |-> <<p, i>>]

\* Two passes of two batches were fully consumed and a third has begun.
C7_Witness ==
    /\ Len(passes) = 3
    /\ NumBatches(loader) = 2
    /\ FullyConsumed(1) /\ FullyConsumed(2)
    /\ passes[3] = << <<3, 1>> >>
    /\ loader.prefetch = 1

\* ======================================================= DistMisc.all_gather
Ranks == 0..(world_size - 1)

\* The variables of the other subsystems while all_gather runs.
GatherFrame == UNCHANGED <<ckptVars, loaderVars, world_size, reduceVars, printVars, portalVars>>

\* The bytes an object is made of, and the STOP opcode that ends a pickle.
DataBytes == {1, 2}

PickleStop == 46

\* Uninitialised memory (torch.empty) holds any bytes.
Bytes == DataBytes \cup {PickleStop}

SeqsUpTo(S, n) == UNION {[1..k -> S] : k \in 0..n}

\* The picklable objects the ranks pass.
Payloads == SeqsUpTo(DataBytes, MaxDataLen)

\* pickle.dumps: a frame header with the length of the body, the body, STOP.
PickleDumps(data) == <<Len(data)>> \o data \o <<PickleStop>>

\* pickle.loads: reads the frame the header announces and stops at STOP; bytes
\* after STOP are not read; a buffer shorter than its frame is truncated.
PickleLoads(buffer) ==
    IF Len(buffer) = 0 THEN [ok |-> FALSE, value |-> <<>>]
    ELSE LET n == buffer[1] IN
         IF Len(buffer) < n + 2 \/ buffer[n + 2] # PickleStop
         THEN [ok |-> FALSE, value |-> <<>>]
         ELSE [ok |-> TRUE, value |-> SubSeq(buffer, 2, n + 1)]

SeqMax(q) == CHOOSE m \in {q[i] : i \in 1..Len(q)} : \A i \in 1..Len(q) : q[i] <= m

\* A list in rank order of what all ranks handed to a collective.
Gathered(posted) == [i \in 1..world_size |-> posted[i - 1]]

\* A padding put in front of the payload.
PadTensorInFront(tensor, padding) == padding \o tensor

\* torch.cat((tensor, padding), dim=0)
PadTensor(tensor, padding) == tensor \o padding

\* pickle.loads(tensor.cpu().numpy().tobytes()[:size])
GatherEntry(size, tensor) == PickleLoads(SubSeq(tensor, 1, size))

GatherInit ==
    /\ PortalIdle
    /\ CkptIdle /\ LoaderIdle /\ ReduceIdle /\ PrintIdle
    /\ world_size \in 1..MaxWorld
    /\ \E d \in [Ranks -> Payloads] :
          ag_rank = [r \in Ranks |->
                       [pc |-> "call", data |-> d[r], tensor |-> <<>>,
                        size_list |-> <<>>, data_list |-> <<>>]]
    /\ ag_net = [sizes |-> <<>>, tensors |-> <<>>]

\* all_gather up to the first dist.all_gather: with one process return [data];
\* else serialise the data and hand the size of the tensor to the collective.
AllGatherCall(r) ==
    /\ ag_rank[r].pc = "call"
    /\ IF world_size = 1
       THEN /\ ag_rank' = [ag_rank EXCEPT ![r].data_list = <<ag_rank[r].data>>,
                                          ![r].pc = "done"]
            /\ UNCHANGED ag_net
       ELSE LET tensor == PickleDumps(ag_rank[r].data) IN
            /\ ag_rank' = [ag_rank EXCEPT ![r].tensor = tensor, ![r].pc = "sizes"]
            /\ ag_net' = [ag_net EXCEPT !.sizes = (r :> Len(tensor)) @@ @]
    /\ GatherFrame

\* The sizes of all ranks have arrived: pad the tensor to the largest size
\* with uninitialised bytes and hand it to the second dist.all_gather.
AllGatherSizes(r) ==
    /\ ag_rank[r].pc = "sizes"
    /\ DOMAIN ag_net.sizes = Ranks
    /\ LET size_list == Gathered(ag_net.sizes)
           max_size == SeqMax(size_list)
           local_size == Len(ag_rank[r].tensor)
       IN  \E padding \in [1..(max_size - local_size) -> Bytes] :
              LET tensor == IF local_size # max_size
                            THEN PadTensor(ag_rank[r].tensor, padding)
                            ELSE ag_rank[r].tensor
              IN  /\ ag_rank' = [ag_rank EXCEPT ![r].size_list = size_list,
                                                 ![r].tensor = tensor,
                                                 ![r].pc = "tensors"]
                  /\ ag_net' = [ag_net EXCEPT !.tensors = (r :> tensor) @@ @]
    /\ GatherFrame

\* The tensors of all ranks have arrived: cut each to its size and decode it.
AllGatherTensors(r) ==
    /\ ag_rank[r].pc = "tensors"
    /\ DOMAIN ag_net.tensors = Ranks
    /\ LET tensor_list == Gathered(ag_net.tensors)
           size_list == ag_rank[r].size_list
       IN  ag_rank' = [ag_rank EXCEPT
              ![r].data_list = [i \in 1..world_size |-> GatherEntry(size_list[i], tensor_list[i])],
              ![r].pc = "done"]
    /\ UNCHANGED ag_net
    /\ GatherFrame

GatherNext ==
    \/ \E r \in Ranks : AllGatherCall(r)
    \/ \E r \in Ranks : AllGatherSizes(r)
    \/ \E r \in Ranks : AllGatherTensors(r)

GatherSpec == GatherInit /\ [][GatherNext]_vars

\* C8: on every rank all_gather returns a list of world_size entries whose
\* i-th entry is the data rank i passed, whatever the serialised sizes and
\* the bytes of the padding; with one process it returns [data] and nothing
\* is handed to a collective.
C8_AllGatherReturnsEveryRanksData ==
    /\ \A r \in Ranks :
          ag_rank[r].pc = "done" =>
             /\ Len(ag_rank[r].data_list) = world_size
             /\ \A i \in Ranks :
                   ag_rank[r].data_list[i + 1] =
                      IF world_size = 1 THEN ag_rank[i].data
                      ELSE [ok |-> TRUE, value |-> ag_rank[i].data]
    /\ world_size = 1 => ag_net = [sizes |-> <<>>, tensors |-> <<>>]

\* Two ranks with payloads of different sizes have both returned.
C8_Witness ==
    /\ world_size = 2
    /\ Len(ag_rank[0].data) # Len(ag_rank[1].data)
    /\ \A r \in Ranks : ag_rank[r].pc = "done"

\* ====================================================== DistMisc.reduce_dict
\* The variables of the other subsystems while reduce_dict runs.
ReduceFrame == UNCHANGED <<ckptVars, loaderVars, world_size, gatherVars, printVars, portalVars>>

\* A dict is the sequence of its <<key, value>> items in insertion order.  A
\* key is the place of its name in the order sorted() uses.  A tensor value is
\* kept as a formal sum: the bag of the terms <<rank, key>> added into it,
\* where <<r, k>> stands for the value rank r passes for key k.
InputValue(r, k) == SetToBag({<<r, k>>})

DictKeys(d) == [i \in 1..Len(d) |-> d[i][1]]

DictValue(d, k) == LET i == CHOOSE j \in 1..Len(d) : d[j][1] = k IN d[i][2]

InsertionOrders(S) ==
    {q \in [1..Cardinality(S) -> S] : \A i, j \in 1..Cardinality(S) : q[i] = q[j] => i = j}

\* Names taken in insertion order.
KeyOrderUnsorted(input_dict) == DictKeys(input_dict)

\* for k in sorted(input_dict.keys())
KeyOrder(input_dict) == SortSeq(DictKeys(input_dict), LAMBDA a, b : a < b)

\* dist.all_reduce(values): position by position, the sum over the ranks.
RECURSIVE SumOverRanks(_, _, _)
SumOverRanks(posted, i, n) ==
    IF n = 0 THEN EmptyBag
    ELSE posted[n - 1][i] (+) SumOverRanks(posted, i, n - 1)

AllReduce(posted, len) == [i \in 1..len |-> SumOverRanks(posted, i, world_size)]

\* values /= world_size when average, as the pair of the sum and its divisor.
Averaged(values, average) ==
    [i \in 1..Len(values) |-> [sum |-> values[i], div |-> IF average THEN world_size ELSE 1]]

ReduceInit ==
    /\ PortalIdle
    /\ CkptIdle /\ LoaderIdle /\ GatherIdle /\ PrintIdle
    /\ world_size \in 1..MaxWorld
    /\ \E nk \in 1..MaxKeys, average \in BOOLEAN :
         \E order \in [Ranks -> InsertionOrders(1..nk)] :
            rd_rank = [r \in Ranks |->
                         [pc |-> "call", average |-> average,
                          input_dict |-> [i \in 1..nk |-> <<order[r][i], InputValue(r, order[r][i])>>],
                          names |-> <<>>, values |-> <<>>, result |-> <<>>]]
    /\ rd_net = <<>>

\* reduce_dict up to dist.all_reduce: with fewer than two processes return
\* the input dict; else order the names, stack the values in that order and
\* hand them to the collective.
ReduceDictCall(r) ==
    /\ rd_rank[r].pc = "call"
    /\ IF world_size < 2
       THEN /\ rd_rank' = [rd_rank EXCEPT ![r].result = rd_rank[r].input_dict,
                                          ![r].pc = "done"]
            /\ UNCHANGED rd_net
       ELSE LET names == KeyOrder(rd_rank[r].input_dict)
                values == [i \in 1..Len(names) |-> DictValue(rd_rank[r].input_dict, names[i])]
            IN  /\ rd_rank' = [rd_rank EXCEPT ![r].names = names,
                                               ![r].values = values,
                                               ![r].pc = "all_reduce"]
                /\ rd_net' = (r :> values) @@ rd_net
    /\ ReduceFrame

\* The values of all ranks have arrived: sum them, average if asked to, and
\* build the dict {k: v for k, v in zip(names, values)}.
ReduceDictReturn(r) ==
    /\ rd_rank[r].pc = "all_reduce"
    /\ DOMAIN rd_net = Ranks
    /\ LET names == rd_rank[r].names
           values == Averaged(AllReduce(rd_net, Len(names)), rd_rank[r].average)
       IN  rd_rank' = [rd_rank EXCEPT
              ![r].values = values,
              ![r].result = [i \in 1..Len(names) |-> <<names[i], values[i]>>],
              ![r].pc = "done"]
    /\ UNCHANGED rd_net
    /\ ReduceFrame

ReduceNext ==
    \/ \E r \in Ranks : ReduceDictCall(r)
    \/ \E r \in Ranks : ReduceDictReturn(r)

ReduceSpec == ReduceInit /\ [][ReduceNext]_vars

RECURSIVE TermsOfKey(_, _)
TermsOfKey(k, n) == IF n = 0 THEN EmptyBag ELSE InputValue(n - 1, k) (+) TermsOfKey(k, n - 1)

\* C9: with two or more processes reduce_dict returns on every rank a dict
\* with the key set of the inputs, each key once and in sorted order, whose
\* value for key k is the sum over all ranks of their values for k, divided
\* by world_size when average is set; with one process it returns the input.
C9_ReduceDictSumsPerKey ==
    \A r \in Ranks :
       rd_rank[r].pc = "done" =>
          LET inp == rd_rank[r].input_dict
              res == rd_rank[r].result
          IN  IF world_size < 2 THEN res = inp
              ELSE /\ Len(res) = Len(inp)
                   /\ {res[i][1] : i \in 1..Len(res)} = {inp[i][1] : i \in 1..Len(inp)}
                   /\ \A i \in 1..(Len(res) - 1) : res[i][1] < res[i + 1][1]
                   /\ \A i \in 1..Len(res) :
                         res[i][2] = [sum |-> TermsOfKey(res[i][1], world_size),
                                      div |-> IF rd_rank[r].average THEN world_size ELSE 1]

\* Two ranks that inserted three keys in different orders have both returned
\* the averaged dict.
C9_Witness ==
    /\ world_size = 2
    /\ \A r \in Ranks : rd_rank[r].pc = "done" /\ rd_rank[r].average
    /\ Len(rd_rank[0].input_dict) = 3
    /\ DictKeys(rd_rank[0].input_dict) # DictKeys(rd_rank[1].input_dict)

\* ============================================ DistMisc.setup_for_distributed
\* The variables of the other subsystems while the process prints.
PrintFrame == UNCHANGED <<ckptVars, loaderVars, world_size, gatherVars, reduceVars, portalVars>>

\* builtins.print is the sequence of the dist_print closures put around the
\* built-in print, the outermost first; each is the is_master it captured.
BuiltinPrint == <<>>

\* The keyword arguments of a call of print: force (any truth value) and the
\* keywords the built-in print knows (end stands for them), each given or not.
PrintKwargs ==
    {f @@ k : f \in {<<>>, [force |-> TRUE], [force |-> FALSE]},
              k \in {<<>>, [end |-> ""]}}

\* kwargs read with get: the force keyword stays in kwargs.
KwargsAfterGet(kwargs) == kwargs

\* kwargs after kwargs.pop("force", False)
KwargsAfterPop(kwargs) == [k \in (DOMAIN kwargs) \ {"force"} |-> kwargs[k]]

\* The value of kwargs.pop("force", False)
ForceOf(kwargs) == IF "force" \in DOMAIN kwargs THEN kwargs.force ELSE FALSE

\* A call print(*args, **kwargs) through the closures fn: whether the built-in
\* print was called, with which keywords, and what came of it.  The built-in
\* print raises TypeError on a keyword it does not know.
RECURSIVE CallPrint(_, _)
CallPrint(fn, kwargs) ==
    IF fn = BuiltinPrint
    THEN [called_builtin |-> TRUE, passed |-> kwargs,
          outcome |-> IF "force" \in DOMAIN kwargs THEN "TypeError" ELSE "output"]
    ELSE LET is_master == Head(fn)
             force == ForceOf(kwargs)
         IN  IF is_master \/ force
             THEN CallPrint(Tail(fn), KwargsAfterPop(kwargs))
             ELSE [called_builtin |-> FALSE, passed |-> <<>>, outcome |-> "silent"]

PrintInit ==
    /\ PortalIdle
    /\ CkptIdle /\ LoaderIdle /\ GatherIdle /\ ReduceIdle
    /\ world_size = 1
    /\ print_fn = BuiltinPrint
    /\ print_log = <<>>

\* setup_for_distributed(is_master), called once by init_distributed_mode:
\* builtins.print becomes dist_print around the print found there.
SetupForDistributed(is_master) ==
    /\ print_fn = BuiltinPrint
    /\ print_fn' = <<is_master>> \o print_fn
    /\ UNCHANGED print_log
    /\ PrintFrame

Logged(kwargs) ==
    [kwargs |-> kwargs, installed |-> print_fn # BuiltinPrint] @@ CallPrint(print_fn, kwargs)

\* A call of print somewhere in the program; force is passed only by code that
\* runs in distributed mode.
PrintCall(kwargs) ==
    /\ Len(print_log) < MaxPrints
    /\ (print_fn = BuiltinPrint => "force" \notin DOMAIN kwargs)
    /\ print_log' = Append(print_log, Logged(kwargs))
    /\ UNCHANGED print_fn
    /\ PrintFrame

\* force_print_config: print(msg, force=True) when cfg.env.distributed, which
\* init_distributed_mode sets together with the setup; print(msg) otherwise.
ForcePrintConfig ==
    /\ Len(print_log) < MaxPrints
    /\ print_log' = Append(print_log,
          Logged(IF print_fn # BuiltinPrint THEN [force |-> TRUE] ELSE <<>>))
    /\ UNCHANGED print_fn
    /\ PrintFrame

PrintNext ==
    \/ \E is_master \in BOOLEAN : SetupForDistributed(is_master)
    \/ \E kwargs \in PrintKwargs : PrintCall(kwargs)
    \/ ForcePrintConfig

PrintSpec == PrintInit /\ [][PrintNext]_vars

\* C10: a call of print made after setup_for_distributed(is_master) produces
\* output exactly when is_master is true or the call passes a true force, and
\* the built-in print, when called, gets the keywords of the call without
\* force.
C10_PrintOnlyOnMasterOrForce ==
    \A i \in 1..Len(print_log) :
       print_log[i].installed =>
          /\ print_log[i].outcome = "output" <=>
                (Head(print_fn) \/ ForceOf(print_log[i].kwargs))
          /\ print_log[i].outcome = "output" <=> print_log[i].called_builtin
          /\ print_log[i].called_builtin =>
                /\ "force" \notin DOMAIN print_log[i].passed
                /\ \A k \in (DOMAIN print_log[i].kwargs) \ {"force"} :
                      /\ k \in DOMAIN print_log[i].passed
                      /\ print_log[i].passed[k] = print_log[i].kwargs[k]

\* Off the master process one call with force=True and another keyword was
\* printed and one call without force was not.
C10_Witness ==
    /\ print_fn = <<FALSE>>
    /\ \E i, j \in 1..Len(print_log) :
          /\ print_log[i].kwargs = [force |-> TRUE, end |-> ""]
          /\ print_log[i].outcome = "output"
          /\ print_log[j].installed
          /\ print_log[j].kwargs = [end |-> ""]
          /\ print_log[j].outcome = "silent"

\* ============================================== PortalMisc.interrupt_handler
\* A process from the line after PortalMisc.interrupt_handler(cfg) of
\* train_portal to its exit.  sigint.stack holds the python frames, the running
\* one last: "train_run" is the main program, the other entries are calls of
\* end_everything(cfg, force=True) named by the statement they are at
\* ("handler" is signal_handler before that call).  The print calls of the
\* handler and of end_everything are taken to return.
SigintFrame ==
    UNCHANGED <<ckptVars, loaderVars, world_size, gatherVars, reduceVars, printVars,
                dist_env, run, shuffle, collate, sampler_gen>>

\* init_loggers: the main process opens logs.txt and a wandb run, the other
\* ranks log to sys.stdout.
InitLoggers(r) ==
    [log_file |-> IF r = 0 THEN "open" ELSE "stdout",
     wandb |-> IF r = 0 THEN <<"running">> ELSE <<"none">>]

SigintInit ==
    /\ CkptIdle /\ LoaderIdle /\ GatherIdle /\ ReduceIdle /\ PrintIdle
    /\ world_size = 1
    /\ DistEnvIdle /\ RunIdle /\ ShuffleIdle /\ CollateIdle /\ SamplerGenIdle
    /\ \E r \in {0, 1}, debug \in BOOLEAN :
          sigint = [pc |-> "running", rank |-> r, debug |-> debug,
                    stack |-> <<"train_run">>, unwinding |-> FALSE, received |-> 0,
                    log_file |-> InitLoggers(r).log_file, wandb |-> InitLoggers(r).wandb,
                    calls |-> <<>>, exit_by |-> "none"]

Top(stack) == stack[Len(stack)]

Pop(stack) == SubSeq(stack, 1, Len(stack) - 1)

SetTop(stack, frame) == Append(Pop(stack), frame)

\* The first statement of end_everything's try block on this rank: the body is
\* skipped off the main process, and the finally clause follows.
EndEverythingEntry(r) == IF r = 0 THEN "close" ELSE "exit"

AfterCloseSkipFinish(outcome) == "exit"

\* Where end_everything goes after cfg.info.log_file.close(): an exception
\* leaves the try block for the finally clause.
AfterClose(outcome) == IF outcome = "returned" THEN "finish" ELSE "exit"

\* A frame that SystemExit reaches from a call or a handler it was running:
\* inside the try block the finally clause runs, elsewhere the frame is left.
InTry(frame) == frame \in {"close", "finish"}

Running == sigint.pc = "running" /\ ~sigint.unwinding

\* The signal arrives: python runs signal_handler on top of whatever runs.
Sigint ==
    /\ Running
    /\ sigint.received < MaxSigints
    /\ sigint' = [sigint EXCEPT !.received = @ + 1, !.stack = Append(@, "handler")]
    /\ SigintFrame

\* signal_handler: print('Received SIGINT. Cleaning up...') and the call of
\* end_everything(cfg, force=True).
SignalHandler ==
    /\ Running
    /\ Top(sigint.stack) = "handler"
    /\ sigint' = [sigint EXCEPT !.stack = SetTop(@, EndEverythingEntry(sigint.rank))]
    /\ SigintFrame

\* train_run line 63-64: with cfg.special.debug == 'one_epoch' the main program
\* calls end_everything(cfg, force=True) itself.
DebugOneEpoch ==
    /\ Running
    /\ Top(sigint.stack) = "train_run"
    /\ sigint.debug
    /\ sigint' = [sigint EXCEPT !.stack = Append(@, EndEverythingEntry(sigint.rank))]
    /\ SigintFrame

\* train_portal line 97: end_everything(cfg, loggers, end_with_printed_cfg=True)
\* binds end_with_printed_cfg twice, the call raises TypeError and the
\* exception ends the process.
TrainPortalEnd ==
    /\ Running
    /\ Top(sigint.stack) = "train_run"
    /\ ~sigint.debug
    /\ sigint' = [sigint EXCEPT !.pc = "exited", !.stack = <<>>, !.exit_by = "TypeError"]
    /\ SigintFrame

\* cfg.info.log_file.close() and print('log_file closed.')
LogFileClose ==
    /\ Running
    /\ Top(sigint.stack) = "close"
    /\ \E outcome \in {"returned", "raised"} :
          sigint' = [sigint EXCEPT
                        !.stack = SetTop(@, AfterClose(outcome)),
                        !.log_file = IF outcome = "returned" THEN "closed" ELSE @,
                        !.calls = Append(@, <<"log_file.close", outcome>>)]
    /\ SigintFrame

\* wandb.finish(exit_code=-1) and print('wandb closed.')
WandbFinish ==
    /\ Running
    /\ Top(sigint.stack) = "finish"
    /\ \E outcome \in {"returned", "raised"} :
          sigint' = [sigint EXCEPT
                        !.stack = SetTop(@, "exit"),
                        !.wandb = IF outcome = "returned" /\ @ = <<"running">>
                                  THEN <<"finished", -1>> ELSE @,
                        !.calls = Append(@, <<"wandb.finish", -1, outcome>>)]
    /\ SigintFrame

\* finally: exit() raises SystemExit in the frame that runs it.
Exit ==
    /\ Running
    /\ Top(sigint.stack) = "exit"
    /\ sigint' = [sigint EXCEPT !.stack = Pop(@), !.unwinding = TRUE]
    /\ SigintFrame

\* SystemExit reaches the frame below: its finally clause, the next frame
\* down, or the end of the process when it leaves the main program.
Unwind ==
    /\ sigint.pc = "running"
    /\ sigint.unwinding
    /\ sigint' =
          IF Top(sigint.stack) = "train_run"
          THEN [sigint EXCEPT !.pc = "exited", !.stack = <<>>, !.unwinding = FALSE,
                              !.exit_by = "SystemExit"]
          ELSE IF InTry(Top(sigint.stack))
          THEN [sigint EXCEPT !.stack = SetTop(@, "exit"), !.unwinding = FALSE]
          ELSE [sigint EXCEPT !.stack = Pop(@)]
    /\ SigintFrame

\* What the interpreter does while a handler or end_everything is running.
SigintStep == SignalHandler \/ LogFileClose \/ WandbFinish \/ Exit \/ Unwind

SigintNext ==
    \/ Sigint
    \/ SignalHandler
    \/ DebugOneEpoch
    \/ TrainPortalEnd
    \/ LogFileClose
    \/ WandbFinish
    \/ Exit
    \/ Unwind

\* The interpreter keeps running the frame on top of the stack.
SigintSpec == SigintInit /\ [][SigintNext]_vars /\ WF_vars(SigintStep)

\* -------------------------------------------------------------- properties
CloseCalls == {i \in 1..Len(sigint.calls) : sigint.calls[i][1] = "log_file.close"}

FinishCalls == {i \in 1..Len(sigint.calls) : sigint.calls[i] \in {<<"wandb.finish", -1, "returned">>, <<"wandb.finish", -1, "raised">>}}

NothingRaised == \A i \in 1..Len(sigint.calls) : sigint.calls[i][Len(sigint.calls[i])] = "returned"

ExitedAfterSigint == sigint.pc = "exited" /\ sigint.received > 0

\* C11 as stated: once a SIGINT was received, the main process exits only
\* after it called log_file.close() and then wandb.finish(exit_code=-1).
C11_SigintClosesLogThenFinishesWandb ==
    (ExitedAfterSigint /\ sigint.rank = 0) =>
        \E i \in CloseCalls : \E j \in FinishCalls : i < j

\* C11, amended: after a SIGINT the process always eventually exits, also when
\* log_file.close() or wandb.finish raises; the main process calls
\* log_file.close() first and calls wandb.finish(exit_code=-1) only after a
\* close that returned, and does call it before the exit when no close and no
\* finish raised; on the other ranks nothing is closed or finished.
C11_SigintExitsAfterCleanup ==
    /\ [](sigint.received > 0 => <>(sigint.pc = "exited"))
    /\ [](ExitedAfterSigint => sigint.exit_by = "SystemExit")
    /\ []((ExitedAfterSigint /\ sigint.rank = 0) =>
             /\ CloseCalls # {}
             /\ (NothingRaised => \E i \in CloseCalls : \E j \in FinishCalls : i < j))
    /\ [](\A j \in FinishCalls :
             \E i \in CloseCalls : i < j /\ sigint.calls[i][2] = "returned")
    /\ [](sigint.rank # 0 =>
             sigint.calls = <<>> /\ sigint.log_file = "stdout" /\ sigint.wandb = <<"none">>)

\* The main process received a SIGINT inside train_run, closed the log file,
\* finished wandb with exit code -1 and exited.
C11_Witness ==
    /\ ExitedAfterSigint
    /\ sigint.rank = 0
    /\ sigint.exit_by = "SystemExit"
    /\ sigint.calls = <<<<"log_file.close", "returned">>, <<"wandb.finish", -1, "returned">>>>
    /\ sigint.log_file = "closed"
    /\ sigint.wandb = <<"finished", -1>>

\* ============================================ DistMisc.init_distributed_mode
\* One call of init_distributed_mode(cfg) in a fresh process.  os.environ is a
\* function from the names that are set to their strings; cfg.env and cfg.data
\* are functions from the attributes that exist.  The machine has GPUs and the
\* configuration supplies cfg.env.world_size and cfg.data.batch_size_per_rank.
DistEnvFrame ==
    UNCHANGED <<ckptVars, loaderVars, world_size, gatherVars, reduceVars, print_log,
                sigint, run, shuffle, collate, sampler_gen>>

EnvNames == {"RANK", "WORLD_SIZE", "LOCAL_RANK", "SLURM_PROCID", "SLURM_PTY_PORT"}

\* The strings a launcher may put under a name.
EnvValues(name) ==
    CASE name = "RANK" -> {ToString(n) : n \in 0..(MaxWorld - 1)}
      [] name = "WORLD_SIZE" -> {ToString(n) : n \in 1..MaxWorld}
      [] name = "LOCAL_RANK" -> {ToString(n) : n \in 0..(MaxDevices - 1)}
      [] name = "SLURM_PROCID" -> {ToString(n) : n \in 0..(MaxWorld - 1)}
      [] name = "SLURM_PTY_PORT" -> {"40000"}

Environs ==
    UNION {{f \in [S -> UNION {EnvValues(n) : n \in S}] : \A n \in S : f[n] \in EnvValues(n)} :
             S \in SUBSET EnvNames}

\* int(string) for the decimal strings above.
ParseInt(string) == CHOOSE n \in 0..(MaxWorld + MaxDevices) : ToString(n) = string

\* setattr(namespace, name, value)
SetAttr(namespace, name, value) ==
    [k \in (DOMAIN namespace) \cup {name} |-> IF k = name THEN value ELSE namespace[k]]

\* The condition of the first branch, line 397.
TorchrunLaunch(environ) == "RANK" \in DOMAIN environ /\ "WORLD_SIZE" \in DOMAIN environ

\* The condition of the elif, line 401.
SlurmLaunch(environ) == "SLURM_PROCID" \in DOMAIN environ /\ "SLURM_PTY_PORT" \notin DOMAIN environ

BatchSizeTotalPerRank(batch_size_per_rank, n) == batch_size_per_rank

\* cfg.data.batch_size_per_rank * cfg.env.world_size
BatchSizeTotal(batch_size_per_rank, n) == batch_size_per_rank * n

DistEnvInit ==
    /\ CkptIdle /\ LoaderIdle /\ GatherIdle /\ ReduceIdle
    /\ world_size = 1
    /\ SigintIdle /\ RunIdle /\ ShuffleIdle /\ CollateIdle /\ SamplerGenIdle
    /\ print_fn = BuiltinPrint
    /\ print_log = <<>>
    /\ \E environ \in Environs, w \in 1..MaxWorld, b \in 1..MaxBatchSize, d \in 1..MaxDevices :
          dist_env = [pc |-> "call", environ |-> environ, device_count |-> d,
                      env |-> [world_size |-> w],
                      data |-> [batch_size_per_rank |-> b],
                      device |-> "unset", process_group |-> <<>>,
                      raised |-> "none", printed |-> <<>>]

\* Lines 397-408: the branch on os.environ.  In the first branch the read of
\* os.environ["LOCAL_RANK"] raises KeyError when the name is not set.
SelectMode ==
    /\ dist_env.pc = "call"
    /\ LET environ == dist_env.environ IN
       dist_env' =
          IF TorchrunLaunch(environ)
          THEN LET env2 == SetAttr(SetAttr(dist_env.env, "rank", ParseInt(environ["RANK"])),
                                   "world_size", ParseInt(environ["WORLD_SIZE"])) IN
               IF "LOCAL_RANK" \in DOMAIN environ
               THEN [dist_env EXCEPT !.pc = "distributed",
                        !.env = SetAttr(env2, "gpu", ParseInt(environ["LOCAL_RANK"]))]
               ELSE [dist_env EXCEPT !.pc = "raised", !.env = env2, !.raised = "KeyError"]
          ELSE IF SlurmLaunch(environ)
          THEN LET r == ParseInt(environ["SLURM_PROCID"]) IN
               [dist_env EXCEPT !.pc = "distributed",
                   !.env = SetAttr(SetAttr(@, "rank", r), "gpu", r % dist_env.device_count)]
          ELSE [dist_env EXCEPT !.pc = "returned",
                   !.printed = Append(@, "Not using distributed mode"),
                   !.env = SetAttr(@, "distributed", FALSE),
                   !.data = SetAttr(@, "batch_size_total", dist_env.data.batch_size_per_rank)]
    /\ UNCHANGED print_fn
    /\ DistEnvFrame

\* Lines 410-413: the configuration of distributed mode and the choice of the
\* device.
SetDistributed ==
    /\ dist_env.pc = "distributed"
    /\ dist_env' = [dist_env EXCEPT
                      !.pc = "init_process_group",
                      !.env = SetAttr(SetAttr(@, "distributed", TRUE), "dist_backend", "nccl"),
                      !.data = SetAttr(@, "batch_size_total",
                                       BatchSizeTotal(dist_env.data.batch_size_per_rank,
                                                      dist_env.env.world_size)),
                      !.device = dist_env.env.gpu]
    /\ UNCHANGED print_fn
    /\ DistEnvFrame

\* Lines 417-419: dist.init_process_group(backend, init_method, world_size, rank)
InitProcessGroup ==
    /\ dist_env.pc = "init_process_group"
    /\ dist_env' = [dist_env EXCEPT
                      !.pc = "setup_for_distributed",
                      !.process_group = <<[backend |-> dist_env.env.dist_backend,
                                           world_size |-> dist_env.env.world_size,
                                           rank |-> dist_env.env.rank]>>]
    /\ UNCHANGED print_fn
    /\ DistEnvFrame

\* Line 423: DistMisc.setup_for_distributed(cfg.env.rank == 0)
DistSetupForDistributed ==
    /\ dist_env.pc = "setup_for_distributed"
    /\ print_fn' = <<dist_env.env.rank = 0>> \o print_fn
    /\ dist_env' = [dist_env EXCEPT !.pc = "returned"]
    /\ DistEnvFrame

DistEnvNext ==
    \/ SelectMode
    \/ SetDistributed
    \/ InitProcessGroup
    \/ DistSetupForDistributed

DistEnvSpec == DistEnvInit /\ [][DistEnvNext]_vars

\* -------------------------------------------------------------- properties
DistEnvOver == dist_env.pc \in {"returned", "raised"}

\* What the call leaves in distributed mode, for the world size n it used.
LeftDistributed(n) ==
    /\ dist_env.pc = "returned"
    /\ "distributed" \in DOMAIN dist_env.env /\ dist_env.env.distributed = TRUE
    /\ dist_env.env.world_size = n
    /\ Len(dist_env.process_group) = 1
    /\ dist_env.process_group[1].world_size = n
    /\ dist_env.data.batch_size_total = dist_env.data.batch_size_per_rank * n
    /\ print_fn # BuiltinPrint

LeftNotDistributed ==
    /\ dist_env.pc = "returned"
    /\ "distributed" \in DOMAIN dist_env.env /\ dist_env.env.distributed = FALSE
    /\ dist_env.data.batch_size_total = dist_env.data.batch_size_per_rank
    /\ dist_env.process_group = <<>>
    /\ print_fn = BuiltinPrint

\* C12 as stated: with RANK and WORLD_SIZE set, or else with SLURM_PROCID set
\* and SLURM_PTY_PORT absent, the call leaves distributed mode set up with
\* batch_size_total = batch_size_per_rank * world_size; in every other case it
\* leaves non-distributed mode, no process group and the built-in print.
C12_ModeSelectedFromEnvironment ==
    DistEnvOver =>
        IF TorchrunLaunch(dist_env.environ) \/ SlurmLaunch(dist_env.environ)
        THEN LeftDistributed(dist_env.env.world_size)
        ELSE LeftNotDistributed

\* C12, amended: with RANK and WORLD_SIZE set the call needs LOCAL_RANK too:
\* with it, distributed mode is set up for the world size WORLD_SIZE names,
\* without it the call raises KeyError, having set neither cfg.env.distributed
\* nor batch_size_total, initialised no process group and left print alone.
\* Or else with SLURM_PROCID set and SLURM_PTY_PORT absent distributed mode is
\* set up for the world size the configuration holds.  In every other case
\* the call leaves non-distributed mode.
C12_ModeSelectedWithLocalRank ==
    DistEnvOver =>
        IF TorchrunLaunch(dist_env.environ)
        THEN IF "LOCAL_RANK" \in DOMAIN dist_env.environ
             THEN LeftDistributed(ParseInt(dist_env.environ["WORLD_SIZE"]))
             ELSE /\ dist_env.raised = "KeyError"
                  /\ "distributed" \notin DOMAIN dist_env.env
                  /\ "batch_size_total" \notin DOMAIN dist_env.data
                  /\ dist_env.process_group = <<>>
                  /\ print_fn = BuiltinPrint
        ELSE IF SlurmLaunch(dist_env.environ)
        THEN /\ LeftDistributed(dist_env.env.world_size)
             /\ dist_env.env.rank = ParseInt(dist_env.environ["SLURM_PROCID"])
             /\ dist_env.env.gpu = dist_env.env.rank % dist_env.device_count
        ELSE LeftNotDistributed

\* A torchrun launch of two processes returned with the batch size doubled.
C12_Witness ==
    /\ dist_env.pc = "returned"
    /\ TorchrunLaunch(dist_env.environ)
    /\ dist_env.environ["WORLD_SIZE"] = "2"
    /\ dist_env.env.distributed = TRUE
    /\ dist_env.data.batch_size_per_rank = 2
    /\ dist_env.data.batch_size_total = 4
    /\ Len(dist_env.process_group) = 1
    /\ print_fn = <<FALSE>>

\* ================================================================ train_run
\* train_run from trainer.before_all_epochs() on, on one rank.  run.events is
\* the sequence of the calls made so far, each with the iteration of the loop
\* it belongs to (0 outside the loop).  trainer.epoch_loop yields run.n_epochs
\* items; a call of the trainer or of the engine may raise, which ends
\* train_run.
RunFrame ==
    UNCHANGED <<ckptVars, loaderVars, world_size, gatherVars, reduceVars, printVars,
                sigint, dist_env, shuffle, collate, sampler_gen>>

RunInit ==
    /\ CkptIdle /\ LoaderIdle /\ GatherIdle /\ ReduceIdle /\ PrintIdle
    /\ world_size = 1
    /\ SigintIdle /\ DistEnvIdle /\ ShuffleIdle /\ CollateIdle /\ SamplerGenIdle
    /\ \E r \in {0, 1}, dist_eval \in BOOLEAN, debug \in {"none", "one_epoch"},
          n \in 0..MaxEpoch :
          run = [pc |-> "before_all_epochs", rank |-> r, dist_eval |-> dist_eval,
                 debug |-> debug, n_epochs |-> n, iteration |-> 0, events |-> <<>>]

EvaluatesAlways(r, dist_eval) == TRUE

\* DistMisc.is_main_process() or cfg.trainer.dist_eval
Evaluates(r, dist_eval) == r = 0 \/ dist_eval

\* A call of a hook of the trainer or of a function of the engine: it is
\* recorded, and train_run goes on to next_pc when the call returns.
CallStep(at, name, it, next_pc) ==
    /\ run.pc = at
    /\ \E outcome \in {"returned", "raised"} :
          run' = [run EXCEPT
                    !.pc = IF outcome = "returned" THEN next_pc ELSE "raised",
                    !.events = Append(@, <<name, it>>)]
    /\ RunFrame

\* Line 48: trainer.before_all_epochs()
StepBeforeAllEpochs == CallStep("before_all_epochs", "before_all_epochs", 0, "epoch_loop")

\* Line 51: for _ in trainer.epoch_loop
StepEpochLoop ==
    /\ run.pc = "epoch_loop"
    /\ run' = IF run.iteration < run.n_epochs
              THEN [run EXCEPT !.pc = "before_one_epoch", !.iteration = @ + 1]
              ELSE [run EXCEPT !.pc = "after_all_epochs"]
    /\ RunFrame

\* Line 52: trainer.before_one_epoch()
StepBeforeOneEpoch ==
    CallStep("before_one_epoch", "before_one_epoch", run.iteration, "train_one_epoch")

\* Line 54: train_one_epoch(trainer)
StepTrainOneEpoch ==
    CallStep("train_one_epoch", "train_one_epoch", run.iteration,
             "after_training_before_validation")

\* Lines 56-58: trainer.after_training_before_validation() and the test that
\* guards evaluate.
StepAfterTrainingBeforeValidation ==
    CallStep("after_training_before_validation", "after_training_before_validation",
             run.iteration,
             IF Evaluates(run.rank, run.dist_eval) THEN "evaluate" ELSE "after_validation")

\* Line 59: evaluate(trainer)
StepEvaluate == CallStep("evaluate", "evaluate", run.iteration, "after_validation")

\* Lines 61-63: trainer.after_validation() and the test of cfg.special.debug.
StepAfterValidation ==
    CallStep("after_validation", "after_validation", run.iteration,
             IF run.debug = "one_epoch" THEN "end_everything" ELSE "epoch_loop")

\* Line 64: PortalMisc.end_everything(cfg, force=True) ends the process.
StepEndEverything ==
    /\ run.pc = "end_everything"
    /\ run' = [run EXCEPT !.pc = "exited"]
    /\ RunFrame

\* Line 66: trainer.after_all_epochs()
StepAfterAllEpochs == CallStep("after_all_epochs", "after_all_epochs", 0, "returned")

RunNext ==
    \/ StepBeforeAllEpochs
    \/ StepEpochLoop
    \/ StepBeforeOneEpoch
    \/ StepTrainOneEpoch
    \/ StepAfterTrainingBeforeValidation
    \/ StepEvaluate
    \/ StepAfterValidation
    \/ StepEndEverything
    \/ StepAfterAllEpochs

RunSpec == RunInit /\ [][RunNext]_vars

\* -------------------------------------------------------------- properties
\* The calls of one epoch in the stated order.
EpochCalls(it) ==
    <<<<"before_one_epoch", it>>, <<"train_one_epoch", it>>,
      <<"after_training_before_validation", it>>>>
    \o (IF run.rank = 0 \/ run.dist_eval THEN <<<<"evaluate", it>>>> ELSE <<>>)
    \o <<<<"after_validation", it>>>>

RECURSIVE EpochsCalls(_)
EpochsCalls(n) == IF n = 0 THEN <<>> ELSE EpochsCalls(n - 1) \o EpochCalls(n)

\* The calls of a whole train_run in which no call raises.
WholeRun ==
    <<<<"before_all_epochs", 0>>>>
    \o (IF run.debug = "one_epoch" /\ run.n_epochs > 0
        THEN EpochCalls(1)
        ELSE EpochsCalls(run.n_epochs) \o <<<<"after_all_epochs", 0>>>>)

IsPrefix(p, q) == Len(p) <= Len(q) /\ SubSeq(q, 1, Len(p)) = p

ShuffleFrame ==
    UNCHANGED <<ckptVars, world_size, gatherVars, reduceVars, printVars,
                sigint, dist_env, run, collate, sampler_gen>>

\* The shuffle epochs of the iterators of the sampler opened between the
\* generator states rs and rs2.
OpenedWith(rs, rs2, sampler_epoch) == [c \in 1..(rs2.cycle - rs.cycle) |-> sampler_epoch]

Min(a, b) == IF a < b THEN a ELSE b

\* iter(loader) of a DataLoaderX with persistent workers: the iterator is reset
\* to a fresh iterator of the batch sampler and draws ahead, at most to the
\* end of the sampler.
DataLoaderXIter(l, it) ==
    NewIterator(RepeatStart(it[1].cycle), NumBatches(l), Min(l.prefetch, NumBatches(l)))

\* next() on the iterator of a DataLoaderX: it draws one more batch unless the
\* batch sampler is exhausted, and hands out the oldest one it holds.
DataLoaderXNext(it, n) ==
    IF it[1].idx < n THEN IteratorNext(it, n)
    ELSE <<it[1], Tail(it[2]), Head(it[2])>>

\* The train loaders get_dataloader builds: drop_last is is_training.
TrainLoaders == {l \in Loaders : l.drop_last /\ (NumBatches(l) = 0 => l.prefetch = 0)}

ShuffleInit ==
    /\ CkptIdle /\ GatherIdle /\ ReduceIdle /\ PrintIdle
    /\ world_size = 1
    /\ SigintIdle /\ DistEnvIdle /\ RunIdle /\ CollateIdle /\ SamplerGenIdle
    /\ loader \in TrainLoaders
    /\ passes = <<>>
    /\ pass_state = "none"
    /\ \E infinite \in BOOLEAN, distributed \in BOOLEAN, start_epoch \in 1..MaxEpoch :
          LET it == IF infinite
                    THEN NewIterator(RepeatStart(0), NumBatches(loader), loader.prefetch)
                    ELSE <<RepeatStart(0), <<>> >>
          IN  /\ repeat = it[1]
              /\ in_flight = it[2]
              /\ shuffle = [pc |-> "epoch_loop", infinite |-> infinite,
                            distributed |-> distributed,
                            start_epoch |-> start_epoch, epoch |-> start_epoch - 1,
                            sampler_epoch |-> 0,
                            cycle_epochs |-> OpenedWith(RepeatStart(0), it[1], 0),
                            delivered |-> <<>>]

\* before_one_epoch(epoch=e): trainer_status['epoch'] = e and, in distributed
\* mode, train_loader.sampler_set_epoch(e - 1).
ShuffleBeforeOneEpoch ==
    /\ shuffle.pc = "epoch_loop"
    /\ shuffle.epoch < MaxEpoch
    /\ shuffle' = [shuffle EXCEPT
                     !.pc = "train_one_epoch",
                     !.epoch = @ + 1,
                     !.sampler_epoch = IF shuffle.distributed THEN shuffle.epoch ELSE @]
    /\ UNCHANGED loaderVars
    /\ ShuffleFrame

\* train_one_epoch starts its pass over the loader: iter(train_loader).
ShuffleStartPass ==
    /\ shuffle.pc = "train_one_epoch"
    /\ LET it == IF shuffle.infinite
                 THEN PassIterator(loader, <<repeat, in_flight>>)
                 ELSE DataLoaderXIter(loader, <<repeat, in_flight>>)
       IN  /\ repeat' = it[1]
           /\ in_flight' = it[2]
           /\ shuffle' = [shuffle EXCEPT
                            !.pc = "pass",
                            !.cycle_epochs = @ \o OpenedWith(repeat, it[1], shuffle.sampler_epoch)]
    /\ passes' = Append(passes, <<>>)
    /\ pass_state' = "running"
    /\ UNCHANGED loader
    /\ ShuffleFrame

\* The pass delivers its next batch.
ShuffleNextBatch ==
    /\ shuffle.pc = "pass"
    /\ Len(CurrentPass) < LoaderLen(loader)
    /\ LET r == IF shuffle.infinite
                THEN IteratorNext(<<repeat, in_flight>>, NumBatches(loader))
                ELSE DataLoaderXNext(<<repeat, in_flight>>, NumBatches(loader))
       IN  /\ repeat' = r[1]
           /\ in_flight' = r[2]
           /\ passes' = [passes EXCEPT ![Len(passes)] = Append(@, r[3])]
           /\ shuffle' = [shuffle EXCEPT
                            !.cycle_epochs = @ \o OpenedWith(repeat, r[1], shuffle.sampler_epoch),
                            !.delivered = Append(@, <<shuffle.epoch, r[3]>>)]
    /\ UNCHANGED <<loader, pass_state>>
    /\ ShuffleFrame

\* The pass has delivered len(train_loader) batches: the epoch's training ends
\* and the loop of train_run goes on.
ShuffleEndPass ==
    /\ shuffle.pc = "pass"
    /\ Len(CurrentPass) >= LoaderLen(loader)
    /\ shuffle' = [shuffle EXCEPT !.pc = "epoch_loop"]
    /\ pass_state' = "finished"
    /\ UNCHANGED <<loader, repeat, in_flight, passes>>
    /\ ShuffleFrame

ShuffleNext ==
    \/ ShuffleBeforeOneEpoch
    \/ ShuffleStartPass
    \/ ShuffleNextBatch
    \/ ShuffleEndPass

ShuffleSpec == ShuffleInit /\ [][ShuffleNext]_vars

\* -------------------------------------------------------------- properties
\* The shuffle epoch the batch <<cycle, idx>> was drawn with.
DrawnWith(batch) == shuffle.cycle_epochs[batch[1]]

\* C14: in distributed mode the sampler holds epoch e - 1 from
\* before_one_epoch(epoch=e) on, throughout epoch e, and every batch delivered
\* in epoch e was drawn with shuffle epoch e - 1, with DataLoaderX and with
\* InfiniteDataLoaderX.
C14_BatchesDrawnWithEpochMinusOne ==
    shuffle.distributed =>
        /\ shuffle.pc \in {"train_one_epoch", "pass"} =>
              shuffle.sampler_epoch = shuffle.epoch - 1
        /\ \A i \in 1..Len(shuffle.delivered) :
              DrawnWith(shuffle.delivered[i][2]) = shuffle.delivered[i][1] - 1

\* ================================================ DataModuleBase.collate_fn
\* A python value is a tuple that starts with its type: a tensor carries its
\* shape and its content, a str and an int their content, a dict the function
\* from its keys to their values.
Tensor(shape, content) == <<"tensor", shape, content>>

Str(content) == <<"str", content>>

Dict(f) == <<"dict", f>>

TypeOf(v) == v[1]

Leaves == {Tensor(1, 1), Tensor(1, 2), Tensor(2, 1), Str(1), Str(2), <<"int", 1>>}

DictsOver(keys, values) == UNION {[S -> values] : S \in SUBSET keys}

\* The dicts found under the key "c" of a sample.
InnerDicts == {Dict(f) : f \in DictsOver({"x"}, {Tensor(1, 1), Str(1), <<"int", 1>>})}

\* The samples a dataset may return: dicts with some of the keys "a" and "c".
Samples ==
    {Dict(f) : f \in {g \in DictsOver({"a", "c"}, Leaves \cup InnerDicts) :
                        /\ "a" \in DOMAIN g => g["a"] \in Leaves
                        /\ "c" \in DOMAIN g => g["c"] \in InnerDicts \cup {Str(1)}}}

\* The orders in which a dict with the key set S yields its items.
ItemsOrders(S) ==
    {o \in [1..Cardinality(S) -> S] : \A k \in S : \E i \in 1..Cardinality(S) : o[i] = k}

\* list(map(lambda d: d[k], data)): the values in sample order, or the
\* exception of the first d[k] that raises (a missing key, or a d that is no
\* dict).
GetItemError(d, k) ==
    IF TypeOf(d) # "dict" THEN "TypeError"
    ELSE IF k \notin DOMAIN d[2] THEN "KeyError"
    ELSE "none"

MapGetItemError(data, k) ==
    IF \A i \in 1..Len(data) : GetItemError(data[i], k) = "none" THEN "none"
    ELSE LET i == CHOOSE i \in 1..Len(data) :
                     /\ GetItemError(data[i], k) # "none"
                     /\ \A j \in 1..(i - 1) : GetItemError(data[j], k) = "none"
         IN  GetItemError(data[i], k)

MapGetItemReversed(data, k) == [i \in 1..Len(data) |-> data[Len(data) + 1 - i][2][k]]

MapGetItem(data, k) == [i \in 1..Len(data) |-> data[i][2][k]]

\* torch.stack(tensors, dim=0): the tensors must be tensors of one shape.
TorchStack(tensors) ==
    IF \E i \in 1..Len(tensors) : TypeOf(tensors[i]) # "tensor"
    THEN [raised |-> "TypeError"]
    ELSE IF \E i \in 1..Len(tensors) : tensors[i][2] # tensors[1][2]
    THEN [raised |-> "RuntimeError"]
    ELSE [raised |-> "none", value |-> [type |-> "stack", of |-> tensors]]

\* The loop of collate_fn over the items of data[0] that are left, with the
\* batch built so far; the nested dicts of the samples have at most one key.
RECURSIVE CollateItems(_, _, _)
CollateItems(data, order, batch) ==
    IF order = <<>> THEN [raised |-> "none", batch |-> batch]
    ELSE
    LET k == Head(order)
        v == data[1][2][k]
        err == MapGetItemError(data, k)
        entry ==
            CASE TypeOf(v) = "tensor" ->
                   IF err # "none" THEN [raised |-> err]
                   ELSE TorchStack(MapGetItem(data, k))
              [] TypeOf(v) = "str" ->
                   IF err # "none" THEN [raised |-> err]
                   ELSE [raised |-> "none",
                         value |-> [type |-> "list", of |-> MapGetItem(data, k)]]
              [] TypeOf(v) = "dict" ->
                   IF err # "none" THEN [raised |-> err]
                   ELSE LET inner == CollateItems(MapGetItem(data, k),
                                                  CHOOSE o \in ItemsOrders(DOMAIN v[2]) : TRUE,
                                                  <<>>)
                        IN  IF inner.raised # "none" THEN [raised |-> inner.raised]
                            ELSE [raised |-> "none",
                                  value |-> [type |-> "batch", of |-> inner.batch]]
              [] OTHER -> [raised |-> "NotImplementedError"]
    IN  IF entry.raised # "none" THEN [raised |-> entry.raised]
        ELSE CollateItems(data, Tail(order), SetAttr(batch, k, entry.value))

\* collate_fn(data), data[0] yielding its items in the given order.
collate_fn(data, order) == CollateItems(data, order, <<>>)

CollateFrame ==
    UNCHANGED <<ckptVars, loaderVars, world_size, gatherVars, reduceVars, printVars,
                sigint, dist_env, run, shuffle, sampler_gen>>

\* The DataLoader hands collate_fn the samples of one batch.
CollateInit ==
    /\ CkptIdle /\ LoaderIdle /\ GatherIdle /\ ReduceIdle /\ PrintIdle
    /\ world_size = 1
    /\ SigintIdle /\ DistEnvIdle /\ RunIdle /\ ShuffleIdle /\ SamplerGenIdle
    /\ \E n \in 1..MaxBatchSize :
       \E data \in [1..n -> Samples] :
       \E order \in ItemsOrders(DOMAIN data[1][2]) :
          collate = [pc |-> "call", data |-> data, order |-> order]

CollateCall ==
    /\ collate.pc = "call"
    /\ collate' = [pc |-> "done", data |-> collate.data, order |-> collate.order,
                   result |-> collate_fn(collate.data, collate.order)]
    /\ CollateFrame

CollateNext == CollateCall

CollateSpec == CollateInit /\ [][CollateNext]_vars

\* -------------------------------------------------------------- properties
\* The first sample holds, at some depth, a value that is no tensor, str or dict.
RECURSIVE HasOtherType(_)
HasOtherType(d) ==
    \E k \in DOMAIN d[2] :
       \/ TypeOf(d[2][k]) \notin {"tensor", "str", "dict"}
       \/ TypeOf(d[2][k]) = "dict" /\ HasOtherType(d[2][k])

\* The batch the samples give, key by key of the first sample.
RECURSIVE ClaimedBatch(_)
ClaimedBatch(data) ==
    [k \in DOMAIN data[1][2] |->
        LET values == [i \in 1..Len(data) |-> data[i][2][k]] IN
        CASE TypeOf(data[1][2][k]) = "tensor" -> [type |-> "stack", of |-> values]
          [] TypeOf(data[1][2][k]) = "str" -> [type |-> "list", of |-> values]
          [] TypeOf(data[1][2][k]) = "dict" -> [type |-> "batch", of |-> ClaimedBatch(values)]]

\* Every sample is a dict with the keys of the first one, with a tensor of the
\* same shape where the first has a tensor and, recursively, such a dict
\* where the first has a dict.
RECURSIVE SameStructure(_)
SameStructure(data) ==
    \A k \in DOMAIN data[1][2] :
       /\ \A i \in 1..Len(data) : TypeOf(data[i]) = "dict" /\ k \in DOMAIN data[i][2]
       /\ TypeOf(data[1][2][k]) = "tensor" =>
             \A i \in 1..Len(data) :
                TypeOf(data[i][2][k]) = "tensor" /\ data[i][2][k][2] = data[1][2][k][2]
       /\ TypeOf(data[1][2][k]) = "dict" =>
             /\ \A i \in 1..Len(data) : TypeOf(data[i][2][k]) = "dict"
             /\ SameStructure([i \in 1..Len(data) |-> data[i][2][k]])

CollateAsClaimed ==
    IF HasOtherType(collate.data[1])
    THEN collate.result.raised = "NotImplementedError"
    ELSE /\ collate.result.raised = "none"
         /\ collate.result.batch = ClaimedBatch(collate.data)

\* C15 as stated: on every non-empty list of samples collate_fn raises
\* NotImplementedError when the first sample holds a value that is no tensor,
\* str or dict, and otherwise returns the batch with exactly the keys of the
\* first sample, recursively: the stack or the list of the samples' values in
\* sample order.
C15_CollateByFirstSample == collate.pc = "done" => CollateAsClaimed

\* C15, amended: the same, on a list whose samples all have the structure of
\* the first one (its keys at every depth, tensors of its shapes, dicts where
\* it has dicts).
C15_CollateSameStructure ==
    (collate.pc = "done" /\ SameStructure(collate.data)) => CollateAsClaimed

\* Two samples with a tensor, and a nested dict holding a str, were collated.
C15_Witness ==
    /\ collate.pc = "done"
    /\ collate.data = <<Dict([a |-> Tensor(1, 1), c |-> Dict([x |-> Str(1)])]),
                        Dict([a |-> Tensor(1, 2), c |-> Dict([x |-> Str(1)])])>>
    /\ collate.result.raised = "none"
    /\ collate.result.batch.a.of = <<Tensor(1, 1), Tensor(1, 2)>>
    /\ collate.result.batch.c.of.x.of = <<Str(1), Str(1)>>

\* =============================================== _RepeatSampler.__iter__
\* The generator of _RepeatSampler.__iter__ statement by statement, around a
\* wrapped sampler whose every iteration yields n items (the BatchSampler of a
\* loader).  A request is a call of next() on the generator; it is pending
\* while the generator runs.  cycle counts the iterators of the wrapped
\* sampler opened so far, up to MaxRequests + 1.
SamplerGenFrame ==
    UNCHANGED <<ckptVars, loaderVars, world_size, gatherVars, reduceVars, printVars,
                sigint, dist_env, run, shuffle, collate>>

SamplerGenInit ==
    /\ CkptIdle /\ LoaderIdle /\ GatherIdle /\ ReduceIdle /\ PrintIdle
    /\ world_size = 1
    /\ SigintIdle /\ DistEnvIdle /\ RunIdle /\ ShuffleIdle /\ CollateIdle
    /\ \E l \in {x \in Loaders : x.prefetch = 0} :
          sampler_gen = [pc |-> "suspended", sampler |-> l, n |-> NumBatches(l),
                         cycle |-> 0, idx |-> 0, open |-> FALSE,
                         pending |-> FALSE, yielded |-> <<>>]

WhileOnce(g) == g.cycle < 1

\* while True
WhileTrue(g) == TRUE

\* next(generator): the consumer asks for one more item.
Request ==
    /\ sampler_gen.pc = "suspended"
    /\ ~sampler_gen.pending
    /\ Len(sampler_gen.yielded) < MaxRequests
    /\ sampler_gen' = [sampler_gen EXCEPT !.pending = TRUE, !.pc = "running"]
    /\ SamplerGenFrame

\* The head of the loop: while True goes on to iter(self.sampler), which opens
\* a fresh iterator of the wrapped sampler.
OpenIterator ==
    /\ sampler_gen.pc = "running"
    /\ ~sampler_gen.open
    /\ sampler_gen' =
          IF WhileTrue(sampler_gen)
          THEN [sampler_gen EXCEPT !.open = TRUE, !.idx = 0,
                                   !.cycle = Min(@ + 1, MaxRequests + 1)]
          ELSE [sampler_gen EXCEPT !.pc = "returned", !.pending = FALSE]
    /\ SamplerGenFrame

\* yield from: the open iterator has one more item, which is handed to the
\* consumer; the generator is suspended at the yield.
YieldItem ==
    /\ sampler_gen.pc = "running"
    /\ sampler_gen.open
    /\ sampler_gen.idx < sampler_gen.n
    /\ sampler_gen' = [sampler_gen EXCEPT
                         !.idx = @ + 1,
                         !.yielded = Append(@, <<sampler_gen.cycle, sampler_gen.idx + 1>>),
                         !.pending = FALSE,
                         !.pc = "suspended"]
    /\ SamplerGenFrame

\* yield from: the open iterator is exhausted, the loop body ends.
IteratorExhausted ==
    /\ sampler_gen.pc = "running"
    /\ sampler_gen.open
    /\ sampler_gen.idx = sampler_gen.n
    /\ sampler_gen' = [sampler_gen EXCEPT !.open = FALSE]
    /\ SamplerGenFrame

\* What the generator does on its own once it was resumed.
GeneratorStep == OpenIterator \/ YieldItem \/ IteratorExhausted

SamplerGenNext ==
    \/ Request
    \/ OpenIterator
    \/ YieldItem
    \/ IteratorExhausted

\* A resumed generator keeps running.
SamplerGenSpec == SamplerGenInit /\ [][SamplerGenNext]_vars /\ WF_vars(GeneratorStep)

\* -------------------------------------------------------------- properties
\* The generator of the loader model after k items.
RECURSIVE RepeatAfter(_, _)
RepeatAfter(k, n) == IF k = 0 THEN RepeatStart(0) ELSE RepeatNext(RepeatAfter(k - 1, n), n)

\* The items yielded so far are the first items of the endless stream: those
\* of the wrapped sampler in order, cycle after cycle.
YieldsInOrder ==
    \A k \in 1..Len(sampler_gen.yielded) :
       sampler_gen.yielded[k] = StreamItem(k, sampler_gen.n)

\* C17 as stated: the generator never ends, yields the items of the wrapped
\* sampler in order, a fresh iteration after each exhausted one, and every
\* request eventually returns an item, whatever the wrapped sampler yields,
\* also when it yields nothing.
C17_EveryRequestReturnsAnItem ==
    /\ [](sampler_gen.pc # "returned")
    /\ []YieldsInOrder
    /\ (sampler_gen.pending ~> ~sampler_gen.pending)

\* C17, amended: the generator never ends and yields the items in order, and
\* every request eventually returns an item when the wrapped sampler yields at
\* least one item per iteration; around a sampler that yields nothing a
\* request never returns.  Between requests the generator stands where the
\* loader model's RepeatNext puts it.
C17_RequestReturnsUnlessEmpty ==
    /\ [](sampler_gen.pc # "returned")
    /\ []YieldsInOrder
    /\ ((sampler_gen.n > 0 /\ sampler_gen.pending) ~> ~sampler_gen.pending)
    /\ []((sampler_gen.n = 0 /\ sampler_gen.pending) => [](sampler_gen.pending))
    /\ []((sampler_gen.n > 0 /\ ~sampler_gen.pending) =>
             LET rs == RepeatAfter(Len(sampler_gen.yielded), sampler_gen.n) IN
             /\ sampler_gen.cycle = rs.cycle
             /\ sampler_gen.idx = rs.idx
             /\ sampler_gen.open = rs.open)

\* Around a sampler of two batches the generator has yielded both batches of
\* the first iteration and the first of the second.
C17_Witness ==
    /\ sampler_gen.n = 2
    /\ ~sampler_gen.pending
    /\ sampler_gen.yielded = <<<<1, 1>>, <<1, 2>>, <<2, 1>>>>

====
